---- MODULE Spec2Model ----
(***************************************************************************)
(* A model of transcribe_to_md.py: the command-line batch transcriber.     *)
(*                                                                         *)
(* main() is modelled as one sequential process whose position is pc:      *)
(*   start -> parse -> collect -> load -> sort -> loop <-> write -> exited *)
(* The file system, the whisper engine and the platform (case-sensitive    *)
(* or case-insensitive path matching) are the environment.                 *)
(* format_timestamp is a pure function, checked under SpecTS.              *)
(***************************************************************************)
EXTENDS Integers, Sequences, FiniteSets, TLC

(***************************************************************************)
(* Bounds.                                                                 *)
(***************************************************************************)
\* longest command line (number of arguments after the program name)
MaxArgs == 3
\* largest seconds value handed to format_timestamp
MaxSeconds == 7300
\* resolution of the fixed-point model of a float seconds value: ticks per second
Ticks == 10

(***************************************************************************)
(* Characters and strings.  A file name is a sequence of one-character     *)
(* strings so that upper(), case folding and ordering are computed.        *)
(***************************************************************************)
LowerLetters ==
    <<"a","b","c","d","e","f","g","h","i","j","k","l","m",
      "n","o","p","q","r","s","t","u","v","w","x","y","z">>

UpperLetters ==
    <<"A","B","C","D","E","F","G","H","I","J","K","L","M",
      "N","O","P","Q","R","S","T","U","V","W","X","Y","Z">>

DigitChars == <<"0","1","2","3","4","5","6","7","8","9">>

\* the characters used, in code point order
Alphabet == <<"-", ".">> \o DigitChars \o UpperLetters \o LowerLetters

IndexOf(seq, c) == CHOOSE n \in 1..Len(seq) : seq[n] = c

IsIn(seq, c) == \E n \in 1..Len(seq) : seq[n] = c

\* ord(c)
Code(c) == IndexOf(Alphabet, c)

\* str.upper() on one character
UpperChar(c) == IF IsIn(LowerLetters, c) THEN UpperLetters[IndexOf(LowerLetters, c)] ELSE c

\* str.lower() on one character
LowerChar(c) == IF IsIn(UpperLetters, c) THEN LowerLetters[IndexOf(UpperLetters, c)] ELSE c

\* ext.upper()
upper(s) == [n \in 1..Len(s) |-> UpperChar(s[n])]

\* case folding of a string (os.path.normcase on a case-insensitive platform)
lower(s) == [n \in 1..Len(s) |-> LowerChar(s[n])]

(***************************************************************************)
(* The environment: command-line tokens and the file system.               *)
(***************************************************************************)
\* the value of a variable that holds Python's None
NoneVal == "<None>"

\* the strings that can appear on the command line
Tokens == {"-o", "", "out", "d1", "d1/a.MP3", "d2/a.mp3"}

\* sys.argv[1:] : every sequence of at most MaxArgs tokens
ArgLists == UNION {[1..n -> Tokens] : n \in 0..MaxArgs}

\* the regular files that exist
Files == {"d1/a.MP3", "d1/a.wav", "d1/b.Mp3", "d1/n.txt", "d1/sub/e.mp3", "d2/a.mp3"}

\* the directories that exist when the program starts ("." is the working directory)
InitDirs == {".", "d1", "d1/sub", "d2"}

\* pathlib's view of every path: parent directory, stem, suffix and the parts (as characters)
PathTable ==
    ("d1/a.MP3" :> [parent |-> "d1", stem |-> "a", suffix |-> <<".","M","P","3">>,
                    parts |-> << <<"d","1">>, <<"a",".","M","P","3">> >>]) @@
    ("d1/a.wav" :> [parent |-> "d1", stem |-> "a", suffix |-> <<".","w","a","v">>,
                    parts |-> << <<"d","1">>, <<"a",".","w","a","v">> >>]) @@
    ("d1/b.Mp3" :> [parent |-> "d1", stem |-> "b", suffix |-> <<".","M","p","3">>,
                    parts |-> << <<"d","1">>, <<"b",".","M","p","3">> >>]) @@
    ("d1/n.txt" :> [parent |-> "d1", stem |-> "n", suffix |-> <<".","t","x","t">>,
                    parts |-> << <<"d","1">>, <<"n",".","t","x","t">> >>]) @@
    ("d1/sub/e.mp3" :> [parent |-> "d1/sub", stem |-> "e", suffix |-> <<".","m","p","3">>,
                    parts |-> << <<"d","1">>, <<"s","u","b">>, <<"e",".","m","p","3">> >>]) @@
    ("d2/a.mp3" :> [parent |-> "d2", stem |-> "a", suffix |-> <<".","m","p","3">>,
                    parts |-> << <<"d","2">>, <<"a",".","m","p","3">> >>]) @@
    ("d1/sub" :> [parent |-> "d1", stem |-> "sub", suffix |-> <<>>,
                    parts |-> << <<"d","1">>, <<"s","u","b">> >>]) @@
    ("d1" :> [parent |-> ".", stem |-> "d1", suffix |-> <<>>, parts |-> << <<"d","1">> >>]) @@
    ("d2" :> [parent |-> ".", stem |-> "d2", suffix |-> <<>>, parts |-> << <<"d","2">> >>]) @@
    ("out" :> [parent |-> ".", stem |-> "out", suffix |-> <<>>, parts |-> << <<"o","u","t">> >>]) @@
    ("-o" :> [parent |-> ".", stem |-> "-o", suffix |-> <<>>, parts |-> << <<"-","o">> >>]) @@
    ("." :> [parent |-> ".", stem |-> "", suffix |-> <<>>, parts |-> << >>])

\* Path(s): the empty string is the working directory
Path(s) == IF s = "" THEN "." ELSE s

Parent(p) == PathTable[p].parent

Stem(p) == PathTable[p].stem

Suffix(p) == PathTable[p].suffix

Parts(p) == PathTable[p].parts

\* the documents that exist when the program starts: d1/a.md is already there
DocDirs == {"d1", "d2", "out", "-o"}

DocStems == {"a", "b"}

DocPaths == DocDirs \X DocStems

InitDocs == [d \in DocPaths |-> IF d = <<"d1", "a">> THEN "old" ELSE ""]

(***************************************************************************)
(* Program constants.                                                      *)
(***************************************************************************)
AUDIO_EXTENSIONS ==
    { <<".","m","p","3">>, <<".","w","a","v">>, <<".","f","l","a","c">>,
      <<".","m","4","a">>, <<".","o","g","g">>, <<".","w","m","a">>, <<".","a","a","c">> }

\* the handle whisper.load_model("medium", device="cuda") returns
Handle == "medium"

VARIABLES
    args,           \* sys.argv[1:]
    caseSensitive,  \* the platform: TRUE on POSIX, FALSE where paths ignore case
    pc,             \* position of main()
    i,              \* index of the argument scan (1-based)
    output_dir,
    input_paths,
    dirs,           \* directories that exist
    j,              \* index of the loop over input_paths (1-based)
    audio_files,
    model,          \* the loaded handle, NoneVal before the load
    loads,          \* calls of whisper.load_model
    batch,          \* sorted(audio_files), the sequence the for loop iterates
    k,              \* index of the batch loop (1-based)
    raised,         \* files on which model.transcribe raised
    returned,       \* files on which model.transcribe returned a result
    calls,          \* the calls of model.transcribe, in order
    docs,           \* content of every .md destination: "" absent, else its source
    trace,          \* what the program printed, in order
    exit_code,      \* -1 while running
    seconds,        \* input of format_timestamp, in ticks
    stamp           \* result of format_timestamp

vars == <<args, caseSensitive, pc, i, output_dir, input_paths, dirs, j, audio_files,
          model, loads, batch, k, raised, returned, calls, docs, trace, exit_code,
          seconds, stamp>>

\* one printed line
Line(ev, p) == [ev |-> ev, path |-> p, dest |-> <<>>]

SavedLine(p, d) == [ev |-> "saved", path |-> p, dest |-> d]

Init ==
    /\ args \in ArgLists
    /\ caseSensitive \in BOOLEAN
    /\ pc = "start"
    /\ i = 1
    /\ output_dir = NoneVal
    /\ input_paths = <<>>
    /\ dirs = InitDirs
    /\ j = 1
    /\ audio_files = <<>>
    /\ model = NoneVal
    /\ loads = 0
    /\ batch = <<>>
    /\ k = 1
    /\ raised = {}
    /\ returned = {}
    /\ calls = <<>>
    /\ docs = InitDocs
    /\ trace = <<>>
    /\ exit_code = -1
    /\ seconds = 0
    /\ stamp = <<>>

\* sys.exit(code), or the interpreter ending on an uncaught exception
Exit(code) ==
    /\ pc' = "exited"
    /\ exit_code' = code

(***************************************************************************)
(* main(): usage check and argument parsing.                               *)
(***************************************************************************)
CheckUsage ==
    /\ pc = "start"
    /\ IF Len(args) < 1
       THEN /\ trace' = Append(trace, Line("usage", ""))
            /\ Exit(1)
       ELSE /\ pc' = "parse"
            /\ UNCHANGED <<trace, exit_code>>
    /\ UNCHANGED <<args, caseSensitive, i, output_dir, input_paths, dirs, j, audio_files,
                   model, loads, batch, k, raised, returned, calls, docs, seconds, stamp>>

\* forgets to step over the value of -o
ParseArg_noskip ==
    /\ pc = "parse"
    /\ i <= Len(args)
    /\ IF args[i] = "-o" /\ i + 1 <= Len(args)
       THEN /\ output_dir' = args[i + 1]
            /\ i' = i + 1
            /\ UNCHANGED input_paths
       ELSE /\ input_paths' = Append(input_paths, Path(args[i]))
            /\ i' = i + 1
            /\ UNCHANGED output_dir
    /\ UNCHANGED <<args, caseSensitive, pc, dirs, j, audio_files, model, loads, batch, k,
                   raised, returned, calls, docs, trace, exit_code, seconds, stamp>>

ParseArg ==
    /\ pc = "parse"
    /\ i <= Len(args)
    /\ IF args[i] = "-o" /\ i + 1 <= Len(args)
       THEN /\ output_dir' = args[i + 1]
            /\ i' = i + 2
            /\ UNCHANGED input_paths
       ELSE /\ input_paths' = Append(input_paths, Path(args[i]))
            /\ i' = i + 1
            /\ UNCHANGED output_dir
    /\ UNCHANGED <<args, caseSensitive, pc, dirs, j, audio_files, model, loads, batch, k,
                   raised, returned, calls, docs, trace, exit_code, seconds, stamp>>

\* Python truth value of output_dir
Truthy(s) == s # NoneVal /\ s # ""

is_file(p) == p \in Files

is_dir(p) == p \in dirs

\* the loop ends; if output_dir: os.makedirs(output_dir, exist_ok=True)
MakeOutputDir ==
    /\ pc = "parse"
    /\ i > Len(args)
    /\ IF Truthy(output_dir)
       THEN IF is_file(Path(output_dir))
            THEN \* FileExistsError is not caught: traceback, exit status 1
                 /\ trace' = Append(trace, Line("traceback", Path(output_dir)))
                 /\ Exit(1)
                 /\ UNCHANGED dirs
            ELSE /\ dirs' = dirs \cup {Path(output_dir)}
                 /\ pc' = "collect"
                 /\ UNCHANGED <<trace, exit_code>>
       ELSE /\ pc' = "collect"
            /\ UNCHANGED <<dirs, trace, exit_code>>
    /\ UNCHANGED <<args, caseSensitive, i, output_dir, input_paths, j, audio_files,
                   model, loads, batch, k, raised, returned, calls, docs, seconds, stamp>>

(***************************************************************************)
(* main(): collecting the audio files.                                     *)
(***************************************************************************)
\* the entries of directory d
Children(d) == {c \in Files \cup dirs : c # "." /\ Parent(c) = d}

\* fnmatch of a child against the pattern "*" + ext: the name ends with ext;
\* on a case-insensitive platform both sides are case-folded first
fnmatch(c, ext) ==
    IF caseSensitive
    THEN Suffix(c) = ext
    ELSE lower(Suffix(c)) = lower(ext)

\* input_path.glob("*" + ext), the directory being listed in the order fsOrder
glob(fsOrder, ext) ==
    LET Test(c) == fnmatch(c, ext)
    IN  SelectSeq(fsOrder, Test)

\* every ordering of a finite set
Perms(S) == {s \in [1..Cardinality(S) -> S] : \A x \in S : \E n \in 1..Cardinality(S) : s[n] = x}

\* the children of d that some pattern of the loop matches
Matched(d) == {c \in Children(d) : \E ext \in AUDIO_EXTENSIONS : fnmatch(c, ext) \/ fnmatch(c, upper(ext))}

\* the extensions whose patterns match something in d
ExtsPresent(d) == {ext \in AUDIO_EXTENSIONS : \E c \in Children(d) : fnmatch(c, ext) \/ fnmatch(c, upper(ext))}

\* for ext in AUDIO_EXTENSIONS: extend(glob(*ext)); extend(glob(*ext.upper()))
\* extOrder is the iteration order of the set, fsOrder the listing order of the directory
RECURSIVE GlobAll(_, _)
GlobAll(extOrder, fsOrder) ==
    IF extOrder = <<>>
    THEN <<>>
    ELSE glob(fsOrder, Head(extOrder)) \o glob(fsOrder, upper(Head(extOrder)))
            \o GlobAll(Tail(extOrder), fsOrder)

\* one iteration of: for input_path in input_paths
CollectPath ==
    /\ pc = "collect"
    /\ j <= Len(input_paths)
    /\ LET input_path == input_paths[j] IN
       \/ /\ is_file(input_path)
          /\ audio_files' = Append(audio_files, input_path)
          /\ UNCHANGED trace
       \/ /\ ~is_file(input_path)
          /\ is_dir(input_path)
          \* extensions and entries that match nothing add nothing, so only the
          \* order of those that match is chosen
          /\ \E extOrder \in Perms(ExtsPresent(input_path)), fsOrder \in Perms(Matched(input_path)) :
                audio_files' = audio_files \o GlobAll(extOrder, fsOrder)
          /\ UNCHANGED trace
       \/ /\ ~is_file(input_path)
          /\ ~is_dir(input_path)
          /\ trace' = Append(trace, Line("warning", input_path))
          /\ UNCHANGED audio_files
    /\ j' = j + 1
    /\ UNCHANGED <<args, caseSensitive, pc, i, output_dir, input_paths, dirs, model, loads,
                   batch, k, raised, returned, calls, docs, exit_code, seconds, stamp>>

\* reports the empty list but goes on to load the model
CheckEmpty_noexit ==
    /\ pc = "collect"
    /\ j > Len(input_paths)
    /\ trace' = Append(trace, Line(IF audio_files = <<>> THEN "no_audio" ELSE "found", ""))
    /\ pc' = "load"
    /\ UNCHANGED <<args, caseSensitive, i, output_dir, input_paths, dirs, j, audio_files,
                   model, loads, batch, k, raised, returned, calls, docs, exit_code,
                   seconds, stamp>>

\* the loop ends; if not audio_files: sys.exit(1)
CheckEmpty ==
    /\ pc = "collect"
    /\ j > Len(input_paths)
    /\ IF audio_files = <<>>
       THEN /\ trace' = Append(trace, Line("no_audio", ""))
            /\ Exit(1)
       ELSE /\ trace' = Append(trace, Line("found", ""))
            /\ pc' = "load"
            /\ UNCHANGED exit_code
    /\ UNCHANGED <<args, caseSensitive, i, output_dir, input_paths, dirs, j, audio_files,
                   model, loads, batch, k, raised, returned, calls, docs, seconds, stamp>>

(***************************************************************************)
(* main(): loading the model.                                              *)
(***************************************************************************)
\* reports the failed load but goes on to the batch without a handle
LoadModel_noexit ==
    /\ pc = "load"
    /\ loads' = loads + 1
    /\ \/ /\ model' = Handle
          /\ trace' = trace \o <<Line("loading", ""), Line("loaded", "")>>
       \/ /\ trace' = trace \o <<Line("loading", ""), Line("load_failed", "")>>
          /\ UNCHANGED model
    /\ pc' = "sort"
    /\ UNCHANGED <<args, caseSensitive, i, output_dir, input_paths, dirs, j, audio_files,
                   batch, k, raised, returned, calls, docs, exit_code, seconds, stamp>>

\* try: model = whisper.load_model(...) except Exception: sys.exit(1)
LoadModel ==
    /\ pc = "load"
    /\ loads' = loads + 1
    /\ \/ /\ model' = Handle
          /\ trace' = trace \o <<Line("loading", ""), Line("loaded", "")>>
          /\ pc' = "sort"
          /\ UNCHANGED exit_code
       \/ /\ trace' = trace \o <<Line("loading", ""), Line("load_failed", "")>>
          /\ Exit(1)
          /\ UNCHANGED model
    /\ UNCHANGED <<args, caseSensitive, i, output_dir, input_paths, dirs, j, audio_files,
                   batch, k, raised, returned, calls, docs, seconds, stamp>>

(***************************************************************************)
(* main(): the batch loop over sorted(audio_files).                        *)
(***************************************************************************)
\* the sort key of a path: its parts, case-folded where paths ignore case
SortKey(p) == IF caseSensitive THEN Parts(p) ELSE [n \in 1..Len(Parts(p)) |-> lower(Parts(p)[n])]

\* s < t on strings: code point order
RECURSIVE StrLess(_, _)
StrLess(s, t) ==
    IF t = <<>> THEN FALSE
    ELSE IF s = <<>> THEN TRUE
    ELSE IF Code(Head(s)) # Code(Head(t)) THEN Code(Head(s)) < Code(Head(t))
    ELSE StrLess(Tail(s), Tail(t))

\* a < b on sequences of strings
RECURSIVE PartsLess(_, _)
PartsLess(a, b) ==
    IF b = <<>> THEN FALSE
    ELSE IF a = <<>> THEN TRUE
    ELSE IF Head(a) # Head(b) THEN StrLess(Head(a), Head(b))
    ELSE PartsLess(Tail(a), Tail(b))

\* Path.__lt__
PathLess(p, q) == PartsLess(SortKey(p), SortKey(q))

\* x put into the sorted sequence s before the first element that is greater
Insert(s, x) ==
    LET after == {n \in 1..Len(s) : PathLess(x, s[n])}
        pos == IF after = {} THEN Len(s) + 1 ELSE CHOOSE n \in after : \A m \in after : n <= m
    IN  SubSeq(s, 1, pos - 1) \o <<x>> \o SubSeq(s, pos, Len(s))

\* iterates the list as collected
sorted_unsorted(s) == s

\* sorted(s): a stable sort that only uses <
RECURSIVE sorted(_)
sorted(s) ==
    IF s = <<>> THEN <<>>
    ELSE Insert(sorted(SubSeq(s, 1, Len(s) - 1)), s[Len(s)])

\* for audio_file in sorted(audio_files): the sequence is built once
BeginBatch ==
    /\ pc = "sort"
    /\ batch' = sorted(audio_files)
    /\ pc' = "loop"
    /\ UNCHANGED <<args, caseSensitive, i, output_dir, input_paths, dirs, j, audio_files,
                   model, loads, k, raised, returned, calls, docs, trace, exit_code,
                   seconds, stamp>>

\* transcribe_to_markdown up to the end of model.transcribe. The engine is a
\* black box that fails or succeeds, the same way each time for the same file.
\* An exception is caught by the loop of main, which reports it and goes on.
Transcribe ==
    /\ pc = "loop"
    /\ k <= Len(batch)
    /\ LET audio_file == batch[k] IN
       /\ calls' = Append(calls, [path |-> audio_file, model |-> model])
       /\ \/ /\ audio_file \notin returned
             /\ raised' = raised \cup {audio_file}
             /\ trace' = trace \o <<Line("transcribing", audio_file), Line("failed", audio_file)>>
             /\ k' = k + 1
             /\ UNCHANGED <<pc, returned>>
          \/ /\ audio_file \notin raised
             /\ returned' = returned \cup {audio_file}
             /\ trace' = Append(trace, Line("transcribing", audio_file))
             /\ pc' = "write"
             /\ UNCHANGED <<k, raised>>
    /\ UNCHANGED <<args, caseSensitive, i, output_dir, input_paths, dirs, j, audio_files,
                   model, loads, batch, docs, exit_code, seconds, stamp>>

\* always writes beside the source
output_path_inplace(audio_path, out) == <<Parent(audio_path), Stem(audio_path)>>

\* the destination: a pair of the directory and the stem, standing for <dir>/<stem>.md
output_path(audio_path, out) ==
    IF Truthy(out)
    THEN <<Path(out), Stem(audio_path)>>
    ELSE <<Parent(audio_path), Stem(audio_path)>>

\* the rest of transcribe_to_markdown: the document is rendered and written.
\* The destination directory exists (it is the source's, or was made at the
\* start) and the write is taken to succeed.
WriteDoc ==
    /\ pc = "write"
    /\ LET audio_file == batch[k]
           dest == output_path(audio_file, output_dir)
       IN  /\ docs' = [docs EXCEPT ![dest] = audio_file]
           /\ trace' = Append(trace, SavedLine(audio_file, dest))
    /\ k' = k + 1
    /\ pc' = "loop"
    /\ UNCHANGED <<args, caseSensitive, i, output_dir, input_paths, dirs, j, audio_files,
                   model, loads, batch, raised, returned, calls, exit_code, seconds, stamp>>

\* the loop ends; main returns and the exit status is 0
Finish ==
    /\ pc = "loop"
    /\ k > Len(batch)
    /\ trace' = Append(trace, Line("all_done", ""))
    /\ Exit(0)
    /\ UNCHANGED <<args, caseSensitive, i, output_dir, input_paths, dirs, j, audio_files,
                   model, loads, batch, k, raised, returned, calls, docs, seconds, stamp>>

(***************************************************************************)
(* format_timestamp.  A float seconds value is modelled in fixed point:    *)
(* an integer number of ticks, Ticks ticks to the second.                  *)
(***************************************************************************)
\* the decimal digits of n, most significant first
RECURSIVE Decimal(_)
Decimal(n) == IF n < 10 THEN <<DigitChars[n + 1]>> ELSE Decimal(n \div 10) \o <<DigitChars[(n % 10) + 1]>>

\* f"{n:02d}": padded with zeros to a width of at least two
fmt02d(n) == IF n < 10 THEN <<"0">> \o Decimal(n) ELSE Decimal(n)

\* rounds the seconds field to the nearest second instead of truncating
format_timestamp_rounding(s) ==
    LET hours == s \div (3600 * Ticks)
        minutes == (s % (3600 * Ticks)) \div (60 * Ticks)
        secs == ((s % (60 * Ticks)) + (Ticks \div 2)) \div Ticks
    IN  IF hours > 0
        THEN fmt02d(hours) \o <<":">> \o fmt02d(minutes) \o <<":">> \o fmt02d(secs)
        ELSE fmt02d(minutes) \o <<":">> \o fmt02d(secs)

format_timestamp(s) ==
    LET hours == s \div (3600 * Ticks)
        minutes == (s % (3600 * Ticks)) \div (60 * Ticks)
        secs == (s % (60 * Ticks)) \div Ticks
    IN  IF hours > 0
        THEN fmt02d(hours) \o <<":">> \o fmt02d(minutes) \o <<":">> \o fmt02d(secs)
        ELSE fmt02d(minutes) \o <<":">> \o fmt02d(secs)

\* hour counts beyond MaxSeconds that are also tried
LargeHours == {10, 99, 100}

\* the seconds values tried, in ticks
TimeInputs ==
    (0..(MaxSeconds * Ticks))
      \cup {h * 3600 * Ticks + r : h \in LargeHours, r \in {0, 61 * Ticks + 1, 3600 * Ticks - 1}}

InitTS ==
    /\ args = <<>>
    /\ caseSensitive = TRUE
    /\ pc = "format"
    /\ i = 1
    /\ output_dir = NoneVal
    /\ input_paths = <<>>
    /\ dirs = InitDirs
    /\ j = 1
    /\ audio_files = <<>>
    /\ model = NoneVal
    /\ loads = 0
    /\ batch = <<>>
    /\ k = 1
    /\ raised = {}
    /\ returned = {}
    /\ calls = <<>>
    /\ docs = InitDocs
    /\ trace = <<>>
    /\ exit_code = -1
    /\ seconds \in TimeInputs
    /\ stamp = <<>>

\* start = format_timestamp(segment["start"])
FormatStep ==
    /\ pc = "format"
    /\ stamp' = format_timestamp(seconds)
    /\ pc' = "formatted"
    /\ UNCHANGED <<args, caseSensitive, i, output_dir, input_paths, dirs, j, audio_files,
                   model, loads, batch, k, raised, returned, calls, docs, trace, exit_code,
                   seconds>>

NextTS == FormatStep

SpecTS == InitTS /\ [][NextTS]_vars

Next ==
    \/ CheckUsage
    \/ ParseArg
    \/ MakeOutputDir
    \/ CollectPath
    \/ CheckEmpty
    \/ LoadModel
    \/ BeginBatch
    \/ Transcribe
    \/ WriteDoc
    \/ Finish

Spec == Init /\ [][Next]_vars

TypeOK ==
    /\ pc \in {"start", "parse", "collect", "load", "sort", "loop", "write", "exited",
              "format", "formatted"}
    /\ exit_code \in {-1, 0, 1}
    /\ loads \in 0..1

(***************************************************************************)
(* Vocabulary of the properties.                                           *)
(***************************************************************************)
Range(s) == {s[n] : n \in DOMAIN s}

\* the positions of the printed lines of one kind
LinesOf(ev) == {n \in DOMAIN trace : trace[n].ev = ev}

\* the positions of the printed lines of one kind about one file
LinesAbout(ev, f) == {n \in DOMAIN trace : trace[n].ev = ev /\ trace[n].path = f}

\* the run went through the whole batch loop
BatchCompleted == pc = "exited" /\ LinesOf("all_done") # {}

\* the files whose document was written, and the destinations written
Succeeded == {trace[n].path : n \in LinesOf("saved")}

Written == {trace[n].dest : n \in LinesOf("saved")}

(***************************************************************************)
(* C1  Fault isolation.                                                    *)
(***************************************************************************)
\* C1: once the batch loop has run, the exit code is 0 and every file of the
\* resolved batch was handled; every file whose transcription returns has a
\* document written; a file whose transcription raises has no document written
\* and its handling writes nothing (the failure report follows the start of
\* its transcription directly); exactly one failure is reported per failing file.
C1_FaultIsolation ==
    BatchCompleted =>
        /\ exit_code = 0
        /\ \A f \in Range(batch) : f \in raised \cup returned
        /\ \A f \in Range(batch) \cap returned : LinesAbout("saved", f) # {}
        /\ \A f \in Range(batch) \cap raised :
              /\ LinesAbout("saved", f) = {}
              /\ \A n \in LinesAbout("transcribing", f) :
                    n + 1 \in LinesAbout("failed", f)
              /\ Cardinality(LinesAbout("failed", f)) = 1

(***************************************************************************)
(* C2  Resolver deduplication.                                             *)
(***************************************************************************)
\* C2: the sequence the batch loop iterates over contains no path twice, and
\* no file is handed to the engine more than once in a run.
C2_NoDuplicates ==
    /\ \A n, m \in DOMAIN batch : n # m => batch[n] # batch[m]
    /\ \A n, m \in DOMAIN calls : n # m => calls[n].path # calls[m].path

(***************************************************************************)
(* C3  Extension filtering of a directory argument.                        *)
(***************************************************************************)
\* the input resolution is over
Resolved == pc \in {"load", "sort", "loop", "write"} \/ (pc = "exited" /\ LinesOf("no_audio") \cup LinesOf("found") # {})

\* C3: once the inputs are resolved, a direct child of a directory argument is
\* in the resolved list if and only if its extension, with case ignored, is a
\* recognized one; a file of a subdirectory is never in it.
C3_ExtensionFilter ==
    Resolved =>
        \A d \in Range(input_paths) :
            (~is_file(d) /\ is_dir(d)) =>
                /\ \A c \in Children(d) :
                      c \in Range(audio_files) <=> lower(Suffix(c)) \in AUDIO_EXTENSIONS
                /\ \A f \in Files :
                      (Parent(f) # d /\ Parent(Parent(f)) = d) => f \notin Range(audio_files)

(***************************************************************************)
(* C4  Output path resolution.                                             *)
(***************************************************************************)
\* C4: every document is written to <outputDir>/<stem>.md when -o gave an
\* output directory, whatever the value that followed -o, and to
\* <sourceDir>/<stem>.md otherwise.
C4_OutputPath ==
    \A n \in LinesOf("saved") :
        trace[n].dest =
            IF output_dir # NoneVal
            THEN <<Path(output_dir), Stem(trace[n].path)>>
            ELSE <<Parent(trace[n].path), Stem(trace[n].path)>>

(***************************************************************************)
(* C5  One output document per success.                                    *)
(***************************************************************************)
\* C5 as stated: after a completed run the number of distinct documents
\* written equals the number of distinct files transcribed successfully.
C5_OneDocPerSuccess ==
    BatchCompleted => Cardinality(Written) = Cardinality(Succeeded)

\* the directory a document goes to in this run
DocDir(f) == IF output_dir \in {NoneVal, ""} THEN Parent(f) ELSE Path(output_dir)

\* two files whose documents have the same destination in this run
SameDestination(f, g) == Stem(f) = Stem(g) /\ DocDir(f) = DocDir(g)

\* the last document printed as saved at destination d
LastSaved(d) ==
    LET at == {n \in LinesOf("saved") : trace[n].dest = d}
    IN  trace[CHOOSE n \in at : \A m \in at : m <= n].path

\* C5 as amended: after a completed run the documents written are exactly the
\* destinations of the files transcribed successfully; their number is at most
\* the number of those files, and equal to it exactly when no two of them have
\* the same destination; a destination shared by several holds the document
\* written last, and every other destination is as it was.
C5_DocsAreDestinations ==
    BatchCompleted =>
        /\ Written = {<<DocDir(f), Stem(f)>> : f \in Succeeded}
        /\ Cardinality(Written) <= Cardinality(Succeeded)
        /\ Cardinality(Written) = Cardinality(Succeeded)
              <=> (\A f, g \in Succeeded : SameDestination(f, g) => f = g)
        /\ \A d \in DocPaths :
              docs[d] = IF d \in Written THEN LastSaved(d) ELSE InitDocs[d]

\* a completed run in which two successful files had the same destination
C5_Witness ==
    /\ BatchCompleted
    /\ \E f, g \in Succeeded : f # g /\ SameDestination(f, g)

(***************************************************************************)
(* C6  Zero-input failure.                                                 *)
(***************************************************************************)
\* C6: while no audio file is resolved the model is not loaded, the engine is
\* not called and no document is written; the program cannot pass the check of
\* the resolved list, and when it has exited its exit code is 1.
C6_ZeroInput ==
    audio_files = <<>> =>
        /\ loads = 0
        /\ model = NoneVal
        /\ calls = <<>>
        /\ docs = InitDocs
        /\ pc \in {"start", "parse", "collect", "exited"}
        /\ pc = "exited" => exit_code = 1

\* only -o and its value were given: the directory is made, nothing is resolved
C6_Witness ==
    /\ pc = "exited"
    /\ args = <<"-o", "out">>
    /\ "out" \in dirs
    /\ audio_files = <<>>
    /\ LinesOf("no_audio") # {}
    /\ exit_code = 1

(***************************************************************************)
(* C7  Model loading order.                                                *)
(***************************************************************************)
\* C7: the model is loaded at most once; the load comes after the resolution
\* of the inputs and before the first transcription call; every call uses the
\* loaded handle; after a failed load the program has exited with code 1,
\* without a transcription call and without a document written.
C7_LoadOrder ==
    /\ loads <= 1
    /\ Cardinality(LinesOf("loading")) = loads
    /\ loads = 1 => /\ i > Len(args)
                    /\ j > Len(input_paths)
                    /\ pc \in {"sort", "loop", "write", "exited"}
    /\ \A n \in LinesOf("loading") :
          /\ \A m \in LinesOf("warning") \cup LinesOf("found") : m < n
          /\ \A m \in LinesOf("transcribing") : n < m
    /\ calls # <<>> => loads = 1
    /\ \A n \in DOMAIN calls : calls[n].model = Handle /\ calls[n].model = model
    /\ LinesOf("load_failed") # {} =>
          /\ pc = "exited"
          /\ exit_code = 1
          /\ calls = <<>>
          /\ docs = InitDocs

\* two transcription calls were made after the one load
C7_Witness ==
    /\ loads = 1
    /\ Len(calls) >= 2
    /\ LinesOf("warning") # {}

(***************************************************************************)
(* C8  Sequential sorted processing.                                       *)
(***************************************************************************)
\* the audio files in ascending path order
Ascending == <<"d1/a.MP3", "d1/a.wav", "d1/b.Mp3", "d2/a.mp3">>

Rank(f) == CHOOSE n \in DOMAIN Ascending : Ascending[n] = f

\* C8: the files are handed to the engine in ascending path order, whatever
\* the order of the arguments and of the directory listing; the loop handles
\* the collected files and no other; a transcription starts only when every
\* earlier one has failed or had its document written.
C8_SequentialSorted ==
    /\ \A n, m \in DOMAIN calls : n < m => Rank(calls[n].path) <= Rank(calls[m].path)
    /\ \A n \in DOMAIN calls : n <= Len(batch) /\ calls[n].path = batch[n]
    /\ pc \in {"loop", "write", "exited"} /\ LinesOf("loaded") # {} =>
          /\ Len(batch) = Len(audio_files)
          /\ \A f \in Files :
                Cardinality({n \in DOMAIN batch : batch[n] = f})
                    = Cardinality({n \in DOMAIN audio_files : audio_files[n] = f})
    /\ Len(calls) = Cardinality(LinesOf("failed")) + Cardinality(LinesOf("saved"))
                      + (IF pc = "write" THEN 1 ELSE 0)
    /\ \A n \in LinesOf("transcribing") :
          /\ n > 1
          /\ trace[n - 1].ev \in {"loaded", "failed", "saved"}
    /\ \A n \in LinesOf("saved") \cup LinesOf("failed") :
          /\ n > 1
          /\ trace[n - 1].ev = "transcribing"
          /\ trace[n - 1].path = trace[n].path

\* a completed run of three or more files that were not collected in sorted
\* order, with a failure and a written document
C8_Witness ==
    /\ BatchCompleted
    /\ Len(calls) >= 3
    /\ audio_files # batch
    /\ LinesOf("failed") # {}
    /\ LinesOf("saved") # {}

(***************************************************************************)
(* C9  Timestamp formatting.                                               *)
(***************************************************************************)
\* the value of a digit character
DigitValue(c) == (CHOOSE n \in 1..10 : DigitChars[n] = c) - 1

\* the number a string of digits denotes
RECURSIVE Number(_)
Number(s) == IF s = <<>> THEN 0 ELSE 10 * Number(SubSeq(s, 1, Len(s) - 1)) + DigitValue(s[Len(s)])

\* the fields of a stamp, split at the colons
RECURSIVE Fields(_)
Fields(s) ==
    IF \A n \in DOMAIN s : s[n] # ":"
    THEN <<s>>
    ELSE LET c == CHOOSE n \in DOMAIN s : s[n] = ":" /\ \A m \in 1..(n - 1) : s[m] # ":"
         IN  <<SubSeq(s, 1, c - 1)>> \o Fields(SubSeq(s, c + 1, Len(s)))

AllDigits(s) == s # <<>> /\ \A n \in DOMAIN s : IsIn(DigitChars, s[n])

RunBefore(n) ==
    CHOOSE r \in 0..(n - 1) :
        /\ \A m \in (n - r)..(n - 1) : args[m] = "-o"
        /\ r < n - 1 => args[n - r - 1] # "-o"

\* position n holds the value of a -o, a -o that takes a value, or an input path
IsValuePos(n) == RunBefore(n) % 2 = 1

IsFlagPos(n) == args[n] = "-o" /\ n < Len(args) /\ RunBefore(n) % 2 = 0

IsInputPos(n) == ~IsValuePos(n) /\ ~IsFlagPos(n)

\* the input paths among the first n arguments, in their order
RECURSIVE InputsUpTo(_)
InputsUpTo(n) ==
    IF n = 0 THEN <<>>
    ELSE IF IsInputPos(n) THEN Append(InputsUpTo(n - 1), Path(args[n]))
    ELSE InputsUpTo(n - 1)

\* the value of the last -o among the first n arguments
OutputDirUpTo(n) ==
    LET vals == {m \in 1..n : IsValuePos(m)}
    IN  IF vals = {} THEN NoneVal ELSE args[CHOOSE m \in vals : \A q \in vals : q <= m]

====
